---- MODULE Spec2Model ----
(***************************************************************************)
(* The instance-record handlers of the panel: every handler that reads or  *)
(* writes the three copies of an instance record (the per-instance key     *)
(* `${key}_instance`, the owner's `${User}_instances` list and the global  *)
(* `instances` list), translated from routes/api.js, routes/Instance/*.js, *)
(* the admin instance routes and utils (authHelper).                       *)
(*                                                                         *)
(* Abstractions.  A stored record carries the fields the handlers read or  *)
(* compute; Disk, Ports, Primary, VolumeId and AltImages are copied by the *)
(* handlers exactly as Name is and are left out.  Timestamps (createdAt,   *)
(* updatedAt, suspendedAt, ...) are left out.  A field that is absent from *)
(* the stored JSON is the string "undef" (numbers: 0, which the handlers   *)
(* treat like undefined: `!x`, `x || d`).  imageData is modelled by the    *)
(* Image of the image record it holds.  The daemon is an input: each call  *)
(* gets a nondeterministic reply.                                          *)
(***************************************************************************)
EXTENDS Integers, Sequences, FiniteSets, TLC

VARIABLES
    db,      \* the key-value store: [inst, lists]
    last,    \* the last completed request: what it was, its reply, the store before it
    nextI,   \* instance ids issued so far (uuidv4)
    nextC,   \* container ids issued so far by the daemon
    nops,    \* requests completed so far
    reqs     \* requests in flight (the concurrent specifications): id -> local state

vars == <<db, last, nextI, nextC, nops, reqs>>

------------------------------------------------------------------------------
(* Bounds *)

MaxOps == 3
MaxInstances == 2
MaxContainers == 3

------------------------------------------------------------------------------
(* Values *)

Undef == "undef"

IdNames == <<"i1", "i2", "i3", "i4">>
CNames == <<"c1", "c2", "c3", "c4", "c5", "c6">>

Users == {"u1", "u2"}
AdminUser == "adm"
Callers == Users \cup {AdminUser}

\* the `users` list: adm is an administrator, u2 is a sub-user of i1
UsersDb ==
    [u \in Callers |->
        [admin |-> (u = AdminUser),
         accessTo |-> IF u = "u2" THEN {"i1"} ELSE {}]]

\* the `images` list
ImagesDb == {[Name |-> "A", Image |-> "imgA"], [Name |-> "B", Image |-> "imgB"]}

\* the `${nodeId}_node` records
NodeOk == "node1"

MissingKey == "zz"

------------------------------------------------------------------------------
(* The store: db.get / db.set / db.delete on a partial function *)

Has(f, k) == k \in DOMAIN f

Put(f, k, v) == [x \in (DOMAIN f) \cup {k} |-> IF x = k THEN v ELSE f[x]]

Del(f, k) == [x \in (DOMAIN f) \ {k} |-> f[x]]

\* (await db.get(key)) || []
ListOrEmpty(d, k) == IF Has(d.lists, k) THEN d.lists[k] ELSE <<>>

GlobalKey == "instances"

\* every write is also appended to d.log, the order in which the writes of the
\* request being handled reached the store
SetInst(d, k, r) ==
    [d EXCEPT !.inst = Put(d.inst, k, r),
              !.log = Append(d.log, [loc |-> "inst", key |-> k])]

DelInst(d, k) ==
    [d EXCEPT !.inst = Del(d.inst, k),
              !.log = Append(d.log, [loc |-> "inst", key |-> k])]

SetList(d, k, l) ==
    [d EXCEPT !.lists = Put(d.lists, k, l),
              !.log = Append(d.log, [loc |-> "list", key |-> k])]

EmptyDb == [inst |-> <<>>, lists |-> <<>>, log |-> <<>>]

\* the store between two requests: the write log starts empty
Quiet(d) == [d EXCEPT !.log = <<>>]

------------------------------------------------------------------------------
(* Sequence helpers: Array.prototype.findIndex / filter on the record lists *)

\* findIndex(inst => inst.ContainerId === id): the first such index, 0 for -1
FindIndexByContainerId(s, id) ==
    IF \E i \in 1..Len(s) : s[i].ContainerId = id
    THEN CHOOSE i \in 1..Len(s) :
            s[i].ContainerId = id /\ \A j \in 1..(i - 1) : s[j].ContainerId # id
    ELSE 0

\* findIndex(i => i.Id === id): the first such index, 0 for -1
FindIndexById(s, id) ==
    IF \E i \in 1..Len(s) : s[i].Id = id
    THEN CHOOSE i \in 1..Len(s) : s[i].Id = id /\ \A j \in 1..(i - 1) : s[j].Id # id
    ELSE 0

\* filter(obj => obj.Id !== id)
FilterOutId(s, id) == SelectSeq(s, LAMBDA r : r.Id # id)

\* filter(obj => obj.ContainerId !== cid)
FilterOutContainerId(s, cid) == SelectSeq(s, LAMBDA r : r.ContainerId # cid)

------------------------------------------------------------------------------
(* Instance records *)

UndefEnv == <<<<Undef, Undef>>>>

\* the record isInstanceSuspended stores under a key that holds nothing
StubRecord ==
    [Name |-> Undef, Id |-> Undef, Node |-> Undef, User |-> Undef,
     ContainerId |-> Undef, Memory |-> 0, Cpu |-> 0, Image |-> Undef,
     imageData |-> Undef, Env |-> UndefEnv, State |-> Undef,
     suspended |-> "false", status |-> Undef, currentimage |-> Undef,
     Primary |-> Undef]

\* rawImages.find(i => i.Name === imagename): the Image of the record found
ImageByName(imagename) ==
    IF \E i \in ImagesDb : i.Name = imagename
    THEN (CHOOSE i \in ImagesDb : i.Name = imagename).Image
    ELSE Undef

\* rawImages.find(i => i.Image === image): the Image of the record found
ImageByImage(image) ==
    IF \E i \in ImagesDb : i.Image = image THEN image ELSE Undef

\* a node descriptor with id, address and port but no apiKey
NodeNoKey == "nodeNoKey"

\* the node descriptor check: address, port and apiKey present
NodeValid(r) == r.Node = NodeOk

------------------------------------------------------------------------------
(* utils/authHelper: isUserAuthorizedForContainer(userId, containerId) *)

isUserAuthorizedForContainer(d, userId, containerId) ==
    IF userId = Undef \/ containerId = Undef THEN FALSE
    ELSE IF userId \notin DOMAIN UsersDb THEN FALSE
    ELSE IF UsersDb[userId].admin THEN TRUE
    \* userInstances is undefined when the key holds nothing: .some throws,
    \* the catch returns false
    ELSE IF ~Has(d.lists, userId) THEN FALSE
    ELSE \/ containerId \in UsersDb[userId].accessTo
         \/ \E i \in 1..Len(d.lists[userId]) : d.lists[userId][i].Id = containerId

------------------------------------------------------------------------------
(* A handler's result: the store it leaves, the HTTP status it replies, the *)
(* number of requests it issued to the daemon, whether the daemon call      *)
(* succeeded ("ok"), failed ("fail") or was never made ("none"), and        *)
(* whether the handler reached its success reply.                           *)

Res(d, code, calls, remote, ok) ==
    [db |-> d, code |-> code, calls |-> calls, remote |-> remote, ok |-> ok]

------------------------------------------------------------------------------
(* POST /api/instances/deploy *)

\* api.js updateDatabaseWithNewInstance: the record built
DeployRecord(Id, user, containerId, imagename, memory) ==
    [Name |-> "n0", Id |-> Id, Node |-> NodeOk, User |-> user,
     ContainerId |-> containerId, Memory |-> memory, Cpu |-> 100, Image |-> "imgA",
     imageData |-> ImageByName(imagename), Env |-> <<>>, State |-> "running",
     suspended |-> Undef, status |-> Undef, currentimage |-> Undef,
     Primary |-> "primary"]

\* api.js updateDatabaseWithNewInstance: user list, global list, then the key
DeployWrites(d, rec) ==
    LET d1 == SetList(d, rec.User, Append(ListOrEmpty(d, rec.User), rec))
        d2 == SetList(d1, GlobalKey, Append(ListOrEmpty(d1, GlobalKey), rec))
    IN  SetInst(d2, rec.Id, rec)

\* reply: "created" (201 with a containerId), "other" (another 2xx status),
\* "error" (axios rejects); memory: parseInt(memory) of the body's value, 0
\* for the NaN a non-numeric string gives (falsy like 0, stored as null)
DeployHandler(d, Id, user, imagename, memory, reply, containerId) ==
    IF reply = "error" THEN Res(d, 500, 1, "fail", FALSE)
    ELSE IF reply = "other" THEN Res(d, 200, 1, "fail", FALSE)
    ELSE Res(DeployWrites(d, DeployRecord(Id, user, containerId, imagename,
                                          memory)),
             201, 1, "ok", TRUE)

------------------------------------------------------------------------------
(* PUT /instances/edit/:id *)

\* the storage collaborator's batch(): the queued writes are committed
\* together by write(), applied in the order they were queued
RECURSIVE BatchWrite(_, _)
BatchWrite(d, ops) ==
    IF ops = <<>> THEN d
    ELSE LET o == Head(ops)
             d1 == IF o.op = "setInst" THEN SetInst(d, o.key, o.val)
                   ELSE IF o.op = "delInst" THEN DelInst(d, o.key)
                   ELSE SetList(d, o.key, o.val)
         IN  BatchWrite(d1, Tail(ops))

\* the daemon's replies to one edit request and to its retry
EditReplyKinds == {"ok", "empty", "h4xx", "h5xx", "timeout", "neterr"}

\* error.code === 'ECONNABORTED' || error.response.status >= 500
EditRetryKinds == {"h5xx", "timeout"}

EditScripts ==
    {<<k>> : k \in EditReplyKinds \ EditRetryKinds}
        \cup {<<k1, k2>> : k1 \in EditRetryKinds, k2 \in EditReplyKinds}

\* axios(requestData).catch(retry once), then the newContainerId check and,
\* on a throw, the status the catch block replies
EditCall(script) ==
    LET retried == script[1] \in EditRetryKinds
        final == IF retried THEN script[2] ELSE script[1]
    IN  [ok |-> final = "ok",
         calls |-> IF retried THEN 2 ELSE 1,
         status |-> IF final = "h5xx" THEN 503 ELSE 500]

\* updateInstanceInDatabase: updatedInstance
\* a variant of the record construction that takes the request's Cpu as it
\* is, so an edit without Cpu does not keep the stored one
EditedRecordCpuNotKept(instance, Image, Memory, Cpu, newContainerId) ==
    [instance EXCEPT
        !.Image = IF Image # Undef THEN Image ELSE instance.Image,
        !.Memory = IF Memory # 0 THEN Memory ELSE instance.Memory,
        !.Cpu = Cpu,
        !.ContainerId = newContainerId]

EditedRecord(instance, Image, Memory, Cpu, newContainerId) ==
    [instance EXCEPT
        !.Image = IF Image # Undef THEN Image ELSE instance.Image,
        !.Memory = IF Memory # 0 THEN Memory ELSE instance.Memory,
        !.Cpu = IF Cpu # 0 THEN Cpu ELSE instance.Cpu,
        !.ContainerId = newContainerId]

\* { ...entry, ...updatedInstance }: a key of updatedInstance overrides the
\* entry's; a key updatedInstance lacks keeps the entry's value
SpreadOver(entry, upd) ==
    [Name |-> IF upd.Name # Undef THEN upd.Name ELSE entry.Name,
     Id |-> IF upd.Id # Undef THEN upd.Id ELSE entry.Id,
     Node |-> IF upd.Node # Undef THEN upd.Node ELSE entry.Node,
     User |-> IF upd.User # Undef THEN upd.User ELSE entry.User,
     ContainerId |-> upd.ContainerId,
     Memory |-> upd.Memory,
     Cpu |-> upd.Cpu,
     Image |-> upd.Image,
     imageData |-> IF upd.imageData # Undef THEN upd.imageData ELSE entry.imageData,
     Env |-> IF upd.Env # UndefEnv THEN upd.Env ELSE entry.Env,
     State |-> IF upd.State # Undef THEN upd.State ELSE entry.State,
     suspended |-> IF upd.suspended # Undef THEN upd.suspended ELSE entry.suspended,
     status |-> IF upd.status # Undef THEN upd.status ELSE entry.status,
     currentimage |->
        IF upd.currentimage # Undef THEN upd.currentimage ELSE entry.currentimage,
     Primary |-> IF upd.Primary # Undef THEN upd.Primary ELSE entry.Primary]

\* updateInstanceInDatabase: the writes queued on the batch
EditBatch(d, id, instance, upd) ==
    LET userInstances == ListOrEmpty(d, instance.User)
        ui == FindIndexByContainerId(userInstances, id)
        globalInstances == ListOrEmpty(d, GlobalKey)
        gi == FindIndexByContainerId(globalInstances, id)
    IN  <<[op |-> "setInst", key |-> upd.ContainerId, val |-> upd],
          [op |-> "delInst", key |-> id, val |-> upd]>>
        \o (IF ui # 0
            THEN <<[op |-> "setList", key |-> instance.User,
                    val |-> [userInstances EXCEPT
                                ![ui] = SpreadOver(userInstances[ui], upd)]]>>
            ELSE <<>>)
        \o (IF gi # 0
            THEN <<[op |-> "setList", key |-> GlobalKey,
                    val |-> [globalInstances EXCEPT
                                ![gi] = SpreadOver(globalInstances[gi], upd)]]>>
            ELSE <<>>)

updateInstanceInDatabase(d, id, instance, Image, Memory, Cpu, newContainerId) ==
    BatchWrite(d, EditBatch(d, id, instance,
                            EditedRecord(instance, Image, Memory, Cpu, newContainerId)))

\* Image, Memory, Cpu: the body's values, Undef / 0 when not supplied
EditHandler(d, caller, id, Image, Memory, Cpu, script, newContainerId) ==
    IF ~UsersDb[caller].admin THEN Res(d, 403, 0, "none", FALSE)
    ELSE IF Image = Undef /\ Memory = 0 /\ Cpu = 0 THEN Res(d, 400, 0, "none", FALSE)
    ELSE IF ~Has(d.inst, id) THEN Res(d, 404, 0, "none", FALSE)
    ELSE IF ~NodeValid(d.inst[id]) THEN Res(d, 500, 0, "none", FALSE)
    ELSE LET call == EditCall(script)
         IN  IF ~call.ok THEN Res(d, call.status, call.calls, "fail", FALSE)
             ELSE Res(updateInstanceInDatabase(d, id, d.inst[id], Image, Memory,
                                               Cpu, newContainerId),
                      200, call.calls, "ok", TRUE)

------------------------------------------------------------------------------
(* POST /api/instances/suspend, /api/instances/unsuspend *)

\* instances.find(obj => obj.ContainerId === instance.ContainerId), its
\* suspended flag set in place
ApiFlagGlobal(instances, instance, flag) ==
    LET i == FindIndexByContainerId(instances, instance.ContainerId)
    IN  IF i = 0 THEN instances ELSE [instances EXCEPT ![i].suspended = flag]

ApiSuspendHandler(d, id) ==
    IF ~Has(d.inst, id) THEN Res(d, 404, 0, "none", FALSE)
    ELSE LET instance == [d.inst[id] EXCEPT !.suspended = "true"]
             d1 == SetInst(d, id, instance)
             d2 == SetList(d1, GlobalKey,
                           ApiFlagGlobal(ListOrEmpty(d1, GlobalKey), instance, "true"))
         IN  Res(d2, 200, 0, "none", TRUE)

\* hasUser: whether req.user is set (validateApiKey sets only req.apiKey);
\* logAudit(req.user.userId, ...) throws without it, after both writes
ApiUnsuspendHandler(d, id, hasUser) ==
    IF ~Has(d.inst, id) THEN Res(d, 404, 0, "none", FALSE)
    ELSE LET instance == [d.inst[id] EXCEPT !.suspended = "false"]
             d1 == SetInst(d, id, instance)
             d2 == SetList(d1, GlobalKey,
                           ApiFlagGlobal(ListOrEmpty(d1, GlobalKey), instance, "false"))
         IN  IF hasUser THEN Res(d2, 200, 0, "none", TRUE)
             ELSE Res(d2, 500, 0, "none", FALSE)

------------------------------------------------------------------------------
(* POST /admin/instances/suspend/:id, /admin/instances/unsuspend/:id *)

\* instances.map(obj => obj.Id === instance.Id ? {...obj, suspended} : obj)
AdminFlagGlobal(instances, instance, flag) ==
    [i \in 1..Len(instances) |->
        IF instances[i].Id = instance.Id
        THEN [instances[i] EXCEPT !.suspended = flag]
        ELSE instances[i]]

AdminFlagHandler(d, caller, id, flag) ==
    IF ~UsersDb[caller].admin THEN Res(d, 403, 0, "none", FALSE)
    ELSE IF ~Has(d.inst, id) THEN Res(d, 302, 0, "none", FALSE)
    ELSE LET instance == d.inst[id]
             d1 == SetInst(d, id, [instance EXCEPT !.suspended = flag])
             d2 == SetList(d1, GlobalKey,
                           AdminFlagGlobal(ListOrEmpty(d1, GlobalKey), instance, flag))
         IN  Res(d2, 302, 0, "none", TRUE)

AdminSuspendHandler(d, caller, id) == AdminFlagHandler(d, caller, id, "true")

AdminUnsuspendHandler(d, caller, id) == AdminFlagHandler(d, caller, id, "false")

------------------------------------------------------------------------------
(* DELETE /api/instance/delete *)

\* api.js deleteInstance, after the daemon call returned
ApiDeleteWrites(d, instance) ==
    LET d1 == SetList(d, instance.User,
                      FilterOutContainerId(ListOrEmpty(d, instance.User),
                                           instance.ContainerId))
        d2 == SetList(d1, GlobalKey,
                      FilterOutContainerId(ListOrEmpty(d1, GlobalKey),
                                           instance.ContainerId))
    IN  DelInst(d2, instance.Id)

\* reply: "ok" (2xx) or "fail" (axios.delete rejects: transport error or an
\* error status); the catch rethrows, the route replies 500
ApiDeleteHandler(d, id, reply) ==
    IF ~Has(d.inst, id) THEN Res(d, 404, 0, "none", FALSE)
    \* instance.Node.address on a record without Node: TypeError, no call
    ELSE IF d.inst[id].Node = Undef THEN Res(d, 500, 0, "none", FALSE)
    ELSE IF reply # "ok" THEN Res(d, 500, 1, "fail", FALSE)
    ELSE Res(ApiDeleteWrites(d, d.inst[id]), 200, 1, "ok", TRUE)

------------------------------------------------------------------------------
(* GET /admin/instance/delete/:id *)

\* validateInstance: Id, ContainerId, User and Node present, Node complete
validateInstance(instance) ==
    /\ instance.Id # Undef
    /\ instance.ContainerId # Undef
    /\ instance.User # Undef
    /\ instance.Node = NodeOk

\* admin deleteInstance, after the daemon call (whose outcome is ignored)
AdminDeleteWrites(d, instance) ==
    LET userInstances == ListOrEmpty(d, instance.User)
        globalInstances == ListOrEmpty(d, GlobalKey)
        d1 == SetList(d, instance.User, FilterOutId(userInstances, instance.Id))
        d2 == SetList(d1, GlobalKey, FilterOutId(globalInstances, instance.Id))
    IN  DelInst(d2, instance.Id)

\* reply: "ok", or "fail" (transport error, timeout or error status)
AdminDeleteHandler(d, caller, id, reply) ==
    IF ~UsersDb[caller].admin THEN Res(d, 403, 0, "none", FALSE)
    ELSE IF ~Has(d.inst, id) THEN Res(d, 302, 0, "none", FALSE)
    ELSE IF ~validateInstance(d.inst[id]) THEN Res(d, 302, 0, "none", FALSE)
    ELSE Res(AdminDeleteWrites(d, d.inst[id]), 302, 1,
             IF reply = "ok" THEN "ok" ELSE "fail", TRUE)

------------------------------------------------------------------------------
(* Startup.js: the suspended default, the two list rewrites *)

\* a variant of the default that resets the flag whatever is stored
NormalizeSuspendedResets(d, id) ==
    SetInst(d, id, [d.inst[id] EXCEPT !.suspended = "false"])

\* if (typeof instance.suspended === "undefined") { instance.suspended = false;
\*     await db.set(`${id}_instance`, instance); }
NormalizeSuspended(d, id) ==
    IF d.inst[id].suspended = Undef
    THEN SetInst(d, id, [d.inst[id] EXCEPT !.suspended = "false"])
    ELSE d

updateInstanceInUserAndGlobalArrays(d, instanceData) ==
    LET d1 == SetList(d, instanceData.User,
                      Append(FilterOutId(ListOrEmpty(d, instanceData.User),
                                         instanceData.Id),
                             instanceData))
    IN  SetList(d1, GlobalKey,
                Append(FilterOutId(ListOrEmpty(d1, GlobalKey), instanceData.Id),
                       instanceData))

------------------------------------------------------------------------------
(* POST /instances/startup/changevariable/:id *)

\* instance.Env.map(...) and the push of a variable that was not there
UpdatedEnv(env, variable, value) ==
    IF \E i \in 1..Len(env) : env[i][1] = variable
    THEN [i \in 1..Len(env) |->
            IF env[i][1] = variable THEN <<variable, value>> ELSE env[i]]
    ELSE Append(env, <<variable, value>>)

ChangeVariableHandler(d, caller, id, variable, value) ==
    IF ~Has(d.inst, id) THEN Res(d, 404, 0, "none", FALSE)
    ELSE IF ~isUserAuthorizedForContainer(d, caller, d.inst[id].Id)
    THEN Res(d, 403, 0, "none", FALSE)
    ELSE LET d1 == NormalizeSuspended(d, id)
             instance == d1.inst[id]
         IN  IF instance.suspended = "true" THEN Res(d1, 403, 0, "none", FALSE)
             \* instance.Env.map on a record without Env: TypeError
             ELSE IF instance.Env = UndefEnv THEN Res(d1, 500, 0, "none", FALSE)
             ELSE LET updatedInstance ==
                          [instance EXCEPT
                              !.Env = UpdatedEnv(instance.Env, variable, value)]
                      d2 == SetInst(d1, id, updatedInstance)
                  IN  Res(updateInstanceInUserAndGlobalArrays(d2, updatedInstance),
                          200, 0, "none", TRUE)

------------------------------------------------------------------------------
(* GET /instance/:id/change/name/:name *)

\* isInstanceSuspended(instanceId): the store it leaves and its result
isInstanceSuspended(d, instanceId) ==
    IF ~Has(d.inst, instanceId)
    THEN [db |-> SetInst(d, instanceId, StubRecord), suspended |-> FALSE]
    ELSE LET d1 == NormalizeSuspended(d, instanceId)
         IN  [db |-> d1, suspended |-> (d1.inst[instanceId].suspended = "true")]

\* the list stored under `key` with the Name of the entry whose ContainerId
\* is id set; no write when there is no such entry
RenameByContainerId(d, key, id, name) ==
    LET l == ListOrEmpty(d, key)
        i == FindIndexByContainerId(l, id)
    IN  IF i = 0 THEN d ELSE SetList(d, key, [l EXCEPT ![i].Name = name])

\* the call passes (req.user.userId, instance, id): the parameter instanceId
\* receives the caller's user id
RenameUrlHandler(d, caller, id, name) ==
    IF ~Has(d.inst, id) THEN Res(d, 404, 0, "none", FALSE)
    ELSE IF ~isUserAuthorizedForContainer(d, caller, d.inst[id].Id)
    THEN Res(d, 403, 0, "none", FALSE)
    ELSE LET instance == d.inst[id]
             s == isInstanceSuspended(d, caller)
         IN  IF s.suspended THEN Res(s.db, 200, 0, "none", FALSE)
             ELSE LET d1 == RenameByContainerId(s.db, caller, id, name)
                      d2 == RenameByContainerId(d1, GlobalKey, id, name)
                  IN  Res(SetInst(d2, id, [instance EXCEPT !.Name = name]),
                          302, 0, "none", TRUE)

------------------------------------------------------------------------------
(* POST /instance/:id/rename *)

\* the list stored under `key` with the Name of the entry whose Id is id set
RenameById(d, key, id, name) ==
    LET l == ListOrEmpty(d, key)
        i == FindIndexById(l, id)
    IN  IF i = 0 THEN d ELSE SetList(d, key, [l EXCEPT ![i].Name = name])

RenamePostHandler(d, caller, id, newName) ==
    IF ~Has(d.inst, id) THEN Res(d, 404, 0, "none", FALSE)
    ELSE IF ~isUserAuthorizedForContainer(d, caller, d.inst[id].Id)
    THEN Res(d, 403, 0, "none", FALSE)
    ELSE LET d1 == SetInst(d, id, [d.inst[id] EXCEPT !.Name = newName])
             d2 == RenameById(d1, GlobalKey, id, newName)
         IN  Res(RenameById(d2, caller, id, newName), 200, 0, "none", TRUE)

------------------------------------------------------------------------------
(* GET /instance/:id/installing/status and checkState *)

\* reply: "ok" (both daemon calls answer), "failGet" (states/get fails or has
\* no state), "failSet" (states/set fails)
StateCheckHandler(d, caller, id, reply, newState) ==
    IF ~Has(d.inst, id) THEN Res(d, 404, 0, "none", FALSE)
    ELSE IF ~isUserAuthorizedForContainer(d, caller, d.inst[id].Id)
    THEN Res(d, 403, 0, "none", FALSE)
    ELSE IF ~NodeValid(d.inst[id]) THEN Res(d, 500, 0, "none", FALSE)
    ELSE IF reply = "failGet" THEN Res(d, 500, 1, "fail", FALSE)
    ELSE IF reply = "failSet" THEN Res(d, 500, 2, "fail", FALSE)
    ELSE Res(SetInst(d, id, [d.inst[id] EXCEPT !.State = newState]),
             200, 2, "ok", TRUE)

------------------------------------------------------------------------------
(* GET /instances/startup/changeimage/:id  (redeploy) *)

\* Startup.js updateDatabaseWithNewInstance: instanceData.  id is the route
\* parameter, userId the query's user, image instance.imageData.Image,
\* currentimage the query's image
RedeployRecord(instance, id, userId, currentimage, containerId, node) ==
    [Name |-> instance.Name, Id |-> id, Node |-> node, User |-> userId,
     ContainerId |-> containerId, Memory |-> instance.Memory, Cpu |-> instance.Cpu,
     Image |-> instance.imageData, imageData |-> instance.imageData,
     Env |-> IF instance.Env = UndefEnv THEN <<>> ELSE instance.Env,
     State |-> Undef, suspended |-> "false", status |-> Undef,
     currentimage |-> currentimage, Primary |-> instance.Primary]

\* the lists first, the key after
RedeployWrites(d, id, instanceData) ==
    SetInst(updateInstanceInUserAndGlobalArrays(d, instanceData), id, instanceData)

\* a variant of the handler that synchronises the lists although the daemon
\* call failed
RedeployHandlerSyncsOnFailure(d, caller, id, image, user, reply, containerId, node) ==
    IF ~Has(d.inst, id) THEN Res(d, 302, 0, "none", FALSE)
    ELSE IF ~isUserAuthorizedForContainer(d, caller, d.inst[id].Id)
    THEN Res(d, 403, 0, "none", FALSE)
    ELSE LET d1 == NormalizeSuspended(d, id)
             instance == d1.inst[id]
         IN  IF instance.suspended = "true" THEN Res(d1, 302, 0, "none", FALSE)
             ELSE IF instance.Node = Undef THEN Res(d1, 500, 0, "none", FALSE)
             ELSE IF node = Undef THEN Res(d1, 400, 0, "none", FALSE)
             ELSE IF reply # "ok"
             THEN Res(updateInstanceInUserAndGlobalArrays(d1, instance),
                      500, 1, "fail", FALSE)
             ELSE IF instance.imageData = Undef THEN Res(d1, 500, 1, "ok", FALSE)
             ELSE Res(RedeployWrites(d1, id,
                          RedeployRecord(instance, id, user, image, containerId,
                                         node)),
                      302, 1, "ok", TRUE)

\* reply: "ok" (2xx with a containerId) or "fail" (axios rejects); node: the
\* record read from `${instance.Node.id}_node`, Undef when there is none
RedeployHandler(d, caller, id, image, user, reply, containerId, node) ==
    IF ~Has(d.inst, id) THEN Res(d, 302, 0, "none", FALSE)
    ELSE IF ~isUserAuthorizedForContainer(d, caller, d.inst[id].Id)
    THEN Res(d, 403, 0, "none", FALSE)
    ELSE LET d1 == NormalizeSuspended(d, id)
             instance == d1.inst[id]
         IN  IF instance.suspended = "true" THEN Res(d1, 302, 0, "none", FALSE)
             \* instance.Node.id on a record without Node: TypeError
             ELSE IF instance.Node = Undef THEN Res(d1, 500, 0, "none", FALSE)
             \* if (!node): 400 "Invalid node"; nothing else of node is checked
             ELSE IF node = Undef THEN Res(d1, 400, 0, "none", FALSE)
             ELSE IF reply # "ok" THEN Res(d1, 500, 1, "fail", FALSE)
             \* instance.imageData.Image on a record without imageData:
             \* TypeError after the daemon redeployed
             ELSE IF instance.imageData = Undef THEN Res(d1, 500, 1, "ok", FALSE)
             ELSE Res(RedeployWrites(d1, id,
                          RedeployRecord(instance, id, user, image, containerId,
                                         node)),
                      302, 1, "ok", TRUE)

------------------------------------------------------------------------------
(* POST /instance/reinstall/:id *)

DEFAULT_MEMORY == 512
DEFAULT_CPU == 100

\* a variant of the filter that tests the string fields only, so a record
\* whose Memory or Cpu is missing passes
MissingFieldsNoNumbers(instance) ==
    {f \in {"Node", "Image", "Name", "User", "Primary", "ContainerId"} :
        instance[f] = Undef}

\* requiredFields.filter(field => !instance[field])
MissingFields(instance) ==
    {f \in {"Node", "Image", "Name", "User", "Primary", "ContainerId"} :
        instance[f] = Undef}
        \cup {f \in {"Memory", "Cpu"} : instance[f] = 0}

\* reinstall's updateDatabaseWithNewInstance: instanceData
ReinstallRecord(instance, id, containerId) ==
    [Name |-> instance.Name, Id |-> id, Node |-> instance.Node,
     User |-> instance.User, ContainerId |-> containerId,
     Memory |-> IF instance.Memory = 0 THEN DEFAULT_MEMORY ELSE instance.Memory,
     Cpu |-> IF instance.Cpu = 0 THEN DEFAULT_CPU ELSE instance.Cpu,
     Image |-> instance.Image, imageData |-> ImageByImage(instance.Image),
     Env |-> instance.Env, State |-> Undef, suspended |-> Undef,
     status |-> "running", currentimage |-> Undef,
     Primary |-> instance.Primary]

\* the three db.set calls are started in this order and awaited together
ReinstallWrites(d, id, instanceData) ==
    LET d1 == SetList(d, instanceData.User,
                      Append(FilterOutId(ListOrEmpty(d, instanceData.User), id),
                             instanceData))
        d2 == SetList(d1, GlobalKey,
                      Append(FilterOutId(ListOrEmpty(d1, GlobalKey), id),
                             instanceData))
    IN  SetInst(d2, id, instanceData)

\* reply: "ok" (2xx with a containerId), "empty" (2xx without one) or "fail"
ReinstallHandler(d, caller, id, reply, containerId) ==
    IF ~Has(d.inst, id) THEN Res(d, 302, 0, "none", FALSE)
    ELSE IF ~isUserAuthorizedForContainer(d, caller, d.inst[id].Id)
    THEN Res(d, 403, 0, "none", FALSE)
    ELSE LET instance == d.inst[id]
         IN  IF instance.suspended = "true" THEN Res(d, 302, 0, "none", FALSE)
             \* res.status(400).json({error, missingFields})
             ELSE IF MissingFields(instance) # {}
             THEN Res(d, 400, 0, "none", FALSE)
                    @@ [missing |-> MissingFields(instance)]
             \* prepareRequestData: the image is not in the images list
             ELSE IF ImageByImage(instance.Image) = Undef
             THEN Res(d, 500, 0, "none", FALSE)
             \* prepareRequestData: "Invalid node configuration"
             ELSE IF ~NodeValid(instance) THEN Res(d, 500, 0, "none", FALSE)
             ELSE IF reply # "ok" THEN Res(d, 500, 1, "fail", FALSE)
             ELSE Res(ReinstallWrites(d, id,
                          ReinstallRecord(instance, id, containerId)),
                      302, 1, "ok", TRUE)

------------------------------------------------------------------------------
(* Requests, one handler run to completion per step *)

NoArg == [none |-> TRUE]

Init ==
    /\ db = EmptyDb
    /\ last = [op |-> "init", id |-> Undef, caller |-> Undef, arg |-> NoArg,
               code |-> 0, calls |-> 0, remote |-> "none", ok |-> FALSE,
               pre |-> EmptyDb, missing |-> {}, writes |-> <<>>]
    /\ nextI = 0
    /\ nextC = 0
    /\ nops = 0
    /\ reqs = <<>>

\* the keys a request may address: every key that holds a record, and one
\* that holds none
AddressKeys == (DOMAIN db.inst) \cup {MissingKey}

\* the container id the daemon assigns next
FreshContainer == CNames[nextC + 1]

\* the request completes with result r, the daemon having assigned usedC new
\* container ids
Complete(op, id, caller, arg, r, usedC) ==
    /\ nextC + usedC <= MaxContainers
    /\ db' = Quiet(r.db)
    /\ last' = [op |-> op, id |-> id, caller |-> caller, arg |-> arg,
                code |-> r.code, calls |-> r.calls, remote |-> r.remote,
                ok |-> r.ok, pre |-> db,
                missing |-> IF "missing" \in DOMAIN r THEN r.missing ELSE {},
                writes |-> r.db.log]
    /\ nops' = nops + 1
    /\ nextC' = nextC + usedC
    /\ UNCHANGED reqs

\* whether the daemon answered the request with a new container
Issued(r) == IF r.remote = "ok" THEN 1 ELSE 0

\* memory of the deploy body after parseInt: a number, or NaN (0)
DeployMemories == {512, 0}

Deploy ==
    /\ nops < MaxOps
    /\ nextI < MaxInstances
    /\ \E user \in Users, imagename \in {"A", "none"}, memory \in DeployMemories,
          reply \in {"created", "other", "error"} :
        \E r \in {DeployHandler(db, IdNames[nextI + 1], user, imagename, memory,
                                reply, FreshContainer)} :
            /\ Complete("deploy", IdNames[nextI + 1], Undef,
                        [user |-> user, imagename |-> imagename,
                         memory |-> memory], r, Issued(r))
            /\ nextI' = nextI + 1

EditImages == {Undef, "imgB"}
EditMemories == {0, 2048}
EditCpus == {0, 200}

\* the replies the daemon gives in the specification of all handlers: success,
\* success on the retry, a failure that is not retried, two failures
CoarseScripts == {<<"ok">>, <<"h5xx", "ok">>, <<"neterr">>, <<"h5xx", "h5xx">>}

\* an edit request whose daemon replies are drawn from scripts; inPlace: the
\* daemon answers with the container id the record already has
EditWith(scripts) ==
    /\ nops < MaxOps
    /\ \E id \in AddressKeys, caller \in {AdminUser, "u1"}, Image \in EditImages,
          Memory \in EditMemories, Cpu \in EditCpus, script \in scripts,
          inPlace \in BOOLEAN :
        \E newContainerId \in
                {IF inPlace /\ Has(db.inst, id) THEN db.inst[id].ContainerId
                 ELSE FreshContainer} :
            \E r \in {EditHandler(db, caller, id, Image, Memory, Cpu, script,
                                  newContainerId)} :
                /\ inPlace => (r.ok /\ newContainerId # Undef)
                \* a request rejected before the daemon call has no replies
                /\ (r.remote = "none") => (script = <<"ok">>)
                /\ Complete("edit", id, caller,
                            [Image |-> Image, Memory |-> Memory, Cpu |-> Cpu,
                             newContainerId |-> newContainerId,
                             inPlace |-> inPlace, script |-> script],
                            r, IF r.ok /\ ~inPlace THEN 1 ELSE 0)
                /\ UNCHANGED nextI

Edit == EditWith(CoarseScripts)

ApiSuspend ==
    /\ nops < MaxOps
    /\ \E id \in AddressKeys :
        /\ Complete("apiSuspend", id, Undef, NoArg, ApiSuspendHandler(db, id), 0)
        /\ UNCHANGED nextI

ApiUnsuspend ==
    /\ nops < MaxOps
    /\ \E id \in AddressKeys, hasUser \in BOOLEAN :
        /\ Complete("apiUnsuspend", id, Undef, [hasUser |-> hasUser],
                    ApiUnsuspendHandler(db, id, hasUser), 0)
        /\ UNCHANGED nextI

AdminSuspend ==
    /\ nops < MaxOps
    /\ \E id \in AddressKeys, caller \in {AdminUser, "u1"} :
        /\ Complete("adminSuspend", id, caller, NoArg,
                    AdminSuspendHandler(db, caller, id), 0)
        /\ UNCHANGED nextI

AdminUnsuspend ==
    /\ nops < MaxOps
    /\ \E id \in AddressKeys, caller \in {AdminUser, "u1"} :
        /\ Complete("adminUnsuspend", id, caller, NoArg,
                    AdminUnsuspendHandler(db, caller, id), 0)
        /\ UNCHANGED nextI

ApiDelete ==
    /\ nops < MaxOps
    /\ \E id \in AddressKeys, reply \in {"ok", "fail"} :
        /\ Complete("apiDelete", id, Undef, NoArg, ApiDeleteHandler(db, id, reply), 0)
        /\ UNCHANGED nextI

AdminDelete ==
    /\ nops < MaxOps
    /\ \E id \in AddressKeys, caller \in {AdminUser, "u1"}, reply \in {"ok", "fail"} :
        /\ Complete("adminDelete", id, caller, NoArg,
                    AdminDeleteHandler(db, caller, id, reply), 0)
        /\ UNCHANGED nextI

ChangeVariable ==
    /\ nops < MaxOps
    /\ \E id \in AddressKeys, caller \in Callers :
        /\ Complete("changeVariable", id, caller,
                    [variable |-> "V", value |-> "x"],
                    ChangeVariableHandler(db, caller, id, "V", "x"), 0)
        /\ UNCHANGED nextI

RenameUrl ==
    /\ nops < MaxOps
    /\ \E id \in AddressKeys, caller \in Callers :
        /\ Complete("renameUrl", id, caller, [name |-> "n1"],
                    RenameUrlHandler(db, caller, id, "n1"), 0)
        /\ UNCHANGED nextI

RenamePost ==
    /\ nops < MaxOps
    /\ \E id \in AddressKeys, caller \in Callers :
        /\ Complete("renamePost", id, caller, [name |-> "n1"],
                    RenamePostHandler(db, caller, id, "n1"), 0)
        /\ UNCHANGED nextI

StateCheck ==
    /\ nops < MaxOps
    /\ \E id \in AddressKeys, caller \in Callers,
          reply \in {"ok", "failGet", "failSet"} :
        /\ Complete("stateCheck", id, caller, NoArg,
                    StateCheckHandler(db, caller, id, reply, "RUNNING"), 0)
        /\ UNCHANGED nextI

\* a redeploy request that finds one of nodes under `${nodeId}_node`
RedeployWith(nodes) ==
    /\ nops < MaxOps
    /\ \E id \in AddressKeys, caller \in Callers, user \in Users,
          reply \in {"ok", "fail"}, node \in nodes :
        \E r \in {RedeployHandler(db, caller, id, "imgB", user, reply,
                                  FreshContainer, node)} :
            /\ Complete("redeploy", id, caller,
                        [image |-> "imgB", user |-> user, node |-> node,
                         containerId |-> FreshContainer],
                        r, Issued(r))
            /\ UNCHANGED nextI

Redeploy == RedeployWith({NodeOk})

Reinstall ==
    /\ nops < MaxOps
    /\ \E id \in AddressKeys, caller \in Callers, reply \in {"ok", "empty", "fail"} :
        \E r \in {ReinstallHandler(db, caller, id, reply, FreshContainer)} :
            /\ Complete("reinstall", id, caller, NoArg, r, Issued(r))
            /\ UNCHANGED nextI

Next ==
    \/ Deploy
    \/ Edit
    \/ ApiSuspend
    \/ ApiUnsuspend
    \/ AdminSuspend
    \/ AdminUnsuspend
    \/ ApiDelete
    \/ AdminDelete
    \/ ChangeVariable
    \/ RenameUrl
    \/ RenamePost
    \/ StateCheck
    \/ Redeploy
    \/ Reinstall

Spec == Init /\ [][Next]_vars

------------------------------------------------------------------------------
(* Reading the three locations of an instance *)

\* the entries of the list stored under key whose Id is the given one
EntriesWithId(d, key, Id) ==
    LET l == ListOrEmpty(d, key)
    IN  {i \in 1..Len(l) : l[i].Id = Id}

\* the list under key holds exactly one entry with r's Id, and it equals r
ListAgrees(d, key, r) ==
    /\ Cardinality(EntriesWithId(d, key, r.Id)) = 1
    /\ \A i \in EntriesWithId(d, key, r.Id) : ListOrEmpty(d, key)[i] = r

\* no per-instance key holds a record of the instance Id, no list an entry
GoneEverywhere(d, Id, user) ==
    /\ \A k \in DOMAIN d.inst : d.inst[k].Id # Id
    /\ EntriesWithId(d, user, Id) = {}
    /\ EntriesWithId(d, GlobalKey, Id) = {}

\* the ids deploy has assigned
IssuedIds == {IdNames[i] : i \in 1..nextI}

\* the record the last request addressed, as it was stored before the request
Addressed == last.pre.inst[last.id]

------------------------------------------------------------------------------
(* Properties *)

\* C1: at every quiescent point, for every existing instance the record under
\* its per-instance key, the entry with its Id in the owner's list and the
\* entry with its Id in the global list are field-identical.
C1_ThreeCopiesIdentical ==
    \A k \in DOMAIN db.inst :
        db.inst[k].Id # Undef =>
            /\ ListAgrees(db, db.inst[k].User, db.inst[k])
            /\ ListAgrees(db, GlobalKey, db.inst[k])

\* C3: when the daemon DELETE call of the admin delete fails, the per-instance
\* record is still deleted and the entries with its Id are removed from the
\* owner's list and the global list.
C3_AdminDeleteBestEffort ==
    (last.op = "adminDelete" /\ last.remote = "fail") =>
        /\ ~Has(db.inst, last.id)
        /\ EntriesWithId(db, Addressed.User, Addressed.Id) = {}
        /\ EntriesWithId(db, GlobalKey, Addressed.Id) = {}

\* C4: when the daemon DELETE call of the API delete fails, the per-instance
\* record and the entries in the owner's list and the global list are still
\* removed.
C4_ApiDeleteBestEffort ==
    (last.op = "apiDelete" /\ last.remote = "fail") =>
        /\ ~Has(db.inst, last.id)
        /\ EntriesWithId(db, Addressed.User, Addressed.Id) = {}
        /\ EntriesWithId(db, GlobalKey, Addressed.Id) = {}

\* C5: after a successful delete, whatever mutations preceded it, no record of
\* the instance is left under any per-instance key and no entry for it in the
\* owner's list or the global list.
C5_DeleteClearsAll ==
    (last.op \in {"apiDelete", "adminDelete"} /\ last.ok) =>
        GoneEverywhere(db, Addressed.Id, Addressed.User)

\* C6: after a successful edit, redeploy or reinstall that changes the
\* instance's ContainerId, no record is stored under `${oldContainerId}_instance`.
C6_OldContainerKeyAbsent ==
    (/\ last.op \in {"edit", "redeploy", "reinstall"}
     /\ last.ok
     /\ \E k \in DOMAIN db.inst :
            /\ db.inst[k].Id \in {Addressed.Id, last.id}
            /\ db.inst[k].ContainerId # Addressed.ContainerId)
        => ~Has(db.inst, Addressed.ContainerId)

\* C7: an edit with a non-empty subset of {Image, Memory, Cpu} and a daemon
\* reply newContainerId = N (another id than the key addressed) leaves under
\* `${N}_instance` the pre-edit record with each supplied field set to the
\* supplied value and ContainerId = N, and nothing under the old key.
C7_EditStoresUnderNewKey ==
    (last.op = "edit" /\ last.ok /\ last.arg.newContainerId # last.id) =>
        /\ Has(db.inst, last.arg.newContainerId)
        /\ ~Has(db.inst, last.id)
        /\ LET new == db.inst[last.arg.newContainerId]
               old == Addressed
           IN  /\ new.ContainerId = last.arg.newContainerId
               /\ new.Image = IF last.arg.Image # Undef THEN last.arg.Image
                              ELSE old.Image
               /\ new.Memory = IF last.arg.Memory # 0 THEN last.arg.Memory
                               ELSE old.Memory
               /\ new.Cpu = IF last.arg.Cpu # 0 THEN last.arg.Cpu ELSE old.Cpu
               /\ new.Name = old.Name /\ new.Id = old.Id /\ new.Node = old.Node
               /\ new.User = old.User /\ new.imageData = old.imageData
               /\ new.Env = old.Env /\ new.State = old.State
               /\ new.suspended = old.suspended /\ new.status = old.status
               /\ new.currentimage = old.currentimage

\* C7 witness: an edit supplying Memory only, answered with a new container id
C7_Witness ==
    /\ last.op = "edit" /\ last.ok
    /\ last.arg.Image = Undef /\ last.arg.Memory = 2048 /\ last.arg.Cpu = 0
    /\ last.arg.newContainerId # last.id
    /\ Addressed.Memory = 512
    /\ db.inst[last.arg.newContainerId].Memory = 2048

\* C8 as claimed: if the daemon call of edit, redeploy or reinstall fails, the
\* per-instance key, the owner's list and the global list are all unchanged.
C8_NoWriteOnDaemonFailure ==
    (last.op \in {"edit", "redeploy", "reinstall"} /\ last.remote = "fail") =>
        db = last.pre

\* C8 amended: if the daemon call of edit, redeploy or reinstall fails, no
\* list is written, and the per-instance record is unchanged except that
\* redeploy has stored suspended=false in a record that had no suspended field.
C8_NoSyncOnDaemonFailure ==
    (last.op \in {"edit", "redeploy", "reinstall"} /\ last.remote = "fail") =>
        /\ db.lists = last.pre.lists
        /\ \/ db.inst = last.pre.inst
           \/ /\ last.op = "redeploy"
              /\ Addressed.suspended = Undef
              /\ db.inst = Put(last.pre.inst, last.id,
                               [Addressed EXCEPT !.suspended = "false"])

\* C8 witness: a redeploy whose daemon call failed, on a record that had no
\* suspended field
C8_Witness ==
    /\ last.op = "redeploy" /\ last.remote = "fail"
    /\ Addressed.suspended = Undef
    /\ db.inst[last.id].suspended = "false"

\* C9: after a successful edit the owner's list and the global list each hold
\* exactly one entry with the instance's Id, equal to the updated record.
C9_EditSyncsListsById ==
    (last.op = "edit" /\ last.ok /\ Has(db.inst, last.arg.newContainerId)) =>
        /\ ListAgrees(db, Addressed.User, db.inst[last.arg.newContainerId])
        /\ ListAgrees(db, GlobalKey, db.inst[last.arg.newContainerId])

\* C10: every stored copy of an instance carries the Id assigned at creation.
C10_IdImmutable ==
    /\ \A k \in DOMAIN db.inst : db.inst[k].Id \in IssuedIds \cup {Undef}
    /\ \A key \in DOMAIN db.lists :
            \A i \in 1..Len(db.lists[key]) : db.lists[key][i].Id \in IssuedIds


------------------------------------------------------------------------------
(* Two suspend requests in flight at once.  A handler yields at every await;
   each storage get or set is one atomic step.  reqs[p] holds request p's
   position (pc) and the values its handler has read into local variables. *)

Procs == {1, 2}

SuspendKinds == {"api", "admin"}

\* the store after one instance has been deployed, and after an edit has
\* then moved its record to another key
DeployedDb ==
    Quiet(DeployHandler(EmptyDb, "i1", "u1", "A", 512, "created", "c1").db)

RelocatedDb ==
    Quiet(EditHandler(DeployedDb, AdminUser, "i1", "imgB", 0, 0, <<"ok">>, "c2").db)

SuspendInitDbs == {DeployedDb, RelocatedDb}

SuspendRequest(kind, id) ==
    [kind |-> kind, id |-> id, pc |-> "start", instance |-> StubRecord,
     instances |-> <<>>, got |-> FALSE, put |-> FALSE]

InitSuspend ==
    /\ db \in SuspendInitDbs
    /\ \E k1 \in SuspendKinds, k2 \in SuspendKinds :
        \E id1 \in AddressKeys, id2 \in AddressKeys :
            reqs = <<SuspendRequest(k1, id1), SuspendRequest(k2, id2)>>
    /\ last = [op |-> "init", id |-> Undef, caller |-> Undef, arg |-> NoArg,
               code |-> 0, calls |-> 0, remote |-> "none", ok |-> FALSE,
               pre |-> db, missing |-> {}, writes |-> <<>>]
    /\ nextI = 1
    /\ nextC = 2
    /\ nops = 0

\* const instance = await db.get(id + '_instance'); 404 / redirect if absent
SuspendGetInstance(p) ==
    /\ reqs[p].pc = "start"
    /\ reqs' = [reqs EXCEPT ![p] =
            IF ~Has(db.inst, reqs[p].id) THEN [@ EXCEPT !.pc = "notFound"]
            ELSE [@ EXCEPT !.pc = "setInstance",
                           !.instance = db.inst[reqs[p].id]]]
    /\ UNCHANGED <<db, last, nextI, nextC, nops>>

\* await db.set(id + '_instance', {...instance, suspended: true})
SuspendSetInstance(p) ==
    /\ reqs[p].pc = "setInstance"
    /\ db' = SetInst(db, reqs[p].id,
                     [reqs[p].instance EXCEPT !.suspended = "true"])
    /\ reqs' = [reqs EXCEPT ![p].pc =
                    IF reqs[p].kind = "api" THEN "getInstances" ELSE "all"]
    /\ UNCHANGED <<last, nextI, nextC, nops>>

\* api.js: let instances = await db.get('instances') || []
ApiSuspendGetInstances(p) ==
    /\ reqs[p].pc = "getInstances"
    /\ reqs' = [reqs EXCEPT ![p].instances = ListOrEmpty(db, GlobalKey),
                            ![p].pc = "setInstances"]
    /\ UNCHANGED <<db, last, nextI, nextC, nops>>

\* admin route, Promise.all: the db.get("instances") settles
AdminSuspendGetInstances(p) ==
    /\ reqs[p].pc = "all" /\ ~reqs[p].got
    /\ reqs' = [reqs EXCEPT ![p].instances = ListOrEmpty(db, GlobalKey),
                            ![p].got = TRUE,
                            ![p].pc = IF reqs[p].put THEN "setInstances" ELSE "all"]
    /\ UNCHANGED <<db, last, nextI, nextC, nops>>

\* admin route, Promise.all: the second db.set of the record settles
AdminSuspendSetAgain(p) ==
    /\ reqs[p].pc = "all" /\ ~reqs[p].put
    /\ db' = SetInst(db, reqs[p].id,
                     [reqs[p].instance EXCEPT !.suspended = "true"])
    /\ reqs' = [reqs EXCEPT ![p].put = TRUE,
                            ![p].pc = IF reqs[p].got THEN "setInstances" ELSE "all"]
    /\ UNCHANGED <<last, nextI, nextC, nops>>

\* await db.set('instances', instances) with the entry found flagged
SuspendSetInstances(p) ==
    /\ reqs[p].pc = "setInstances"
    /\ db' = SetList(db, GlobalKey,
                IF reqs[p].kind = "api"
                THEN ApiFlagGlobal(reqs[p].instances, reqs[p].instance, "true")
                ELSE AdminFlagGlobal(reqs[p].instances, reqs[p].instance, "true"))
    /\ reqs' = [reqs EXCEPT ![p].pc = "done"]
    /\ UNCHANGED <<last, nextI, nextC, nops>>

NextSuspend ==
    \E p \in Procs :
        \/ SuspendGetInstance(p)
        \/ SuspendSetInstance(p)
        \/ ApiSuspendGetInstances(p)
        \/ AdminSuspendGetInstances(p)
        \/ AdminSuspendSetAgain(p)
        \/ SuspendSetInstances(p)

SpecSuspend == InitSuspend /\ [][NextSuspend]_vars

\* both requests have replied success for the same instance
BothSuspended ==
    /\ Len(reqs) = 2
    /\ reqs[1].pc = "done" /\ reqs[2].pc = "done"
    /\ reqs[1].id = reqs[2].id

\* C2: when two suspend requests for the same instance have both completed,
\* the instance has suspended = true in the per-instance record, in the
\* owner's list entry and in the global list entry, whatever the interleaving.
C2_ConcurrentSuspendsAllFlagged ==
    BothSuspended =>
        LET r == db.inst[reqs[1].id]
        IN  /\ r.suspended = "true"
            /\ \A i \in EntriesWithId(db, r.User, r.Id) :
                    db.lists[r.User][i].suspended = "true"
            /\ \A i \in EntriesWithId(db, GlobalKey, r.Id) :
                    db.lists[GlobalKey][i].suspended = "true"

\* the two unsuspend routes
UnsuspendOps == {"apiUnsuspend", "adminUnsuspend"}

\* the request that completed last was an unsuspend the route admits (the
\* admin route is reached by an admin), addressed at the key id
UnsuspendOf(l, id) ==
    /\ l.op \in UnsuspendOps
    /\ l.id = id
    /\ l.op = "adminUnsuspend" => l.caller = AdminUser

\* C11: two unsuspend calls in succession on the same existing instance both
\* complete without an error response, suspended is false in the stored
\* record after each, and the second call leaves the store as the first did.
C11_UnsuspendIdempotent ==
    [][(/\ nops' = nops + 1
        /\ Has(last.pre.inst, last.id)
        /\ UnsuspendOf(last, last.id)
        /\ UnsuspendOf(last', last.id))
       => (/\ last.ok /\ last'.ok
           /\ db.inst[last.id].suspended = "false"
           /\ db'.inst[last.id].suspended = "false"
           /\ db' = db)]_vars

\* the fields reinstall requires of the stored record
RequiredFields ==
    {"Node", "Image", "Memory", "Cpu", "Name", "User", "Primary", "ContainerId"}

\* the stored record has no (truthy) value for the field
LacksField(instance, f) ==
    IF f \in {"Memory", "Cpu"} THEN instance[f] = 0 ELSE instance[f] = Undef

\* the last request was a reinstall of a stored record that lacks a required field
ReinstallOfIncomplete ==
    /\ last.op = "reinstall"
    /\ Has(last.pre.inst, last.id)
    /\ \E f \in RequiredFields : LacksField(Addressed, f)

\* the reply is a 400 listing exactly the missing fields, the daemon was not
\* called and nothing was written
RejectedListingMissing ==
    /\ last.code = 400
    /\ last.missing = {f \in RequiredFields : LacksField(Addressed, f)}
    /\ last.calls = 0
    /\ db = last.pre

\* C12 as claimed: reinstall of an instance whose stored record lacks a
\* required field returns 400 listing exactly the missing fields, calls the
\* daemon not at all and writes nothing.
C12_ReinstallMissingFields400 ==
    ReinstallOfIncomplete => RejectedListingMissing

\* C12 amended: the same, for a caller authorized for the instance and a
\* record that is not suspended (authorization and the suspension check come
\* first and answer 403 or a redirect).
C12_ReinstallMissingFields400WhenAdmitted ==
    (/\ ReinstallOfIncomplete
     /\ isUserAuthorizedForContainer(last.pre, last.caller, Addressed.Id)
     /\ Addressed.suspended # "true")
        => RejectedListingMissing

\* C12 witness: the owner reinstalls an instance deployed with a non-numeric
\* memory and is told Memory is missing
C12_Witness ==
    /\ last.op = "reinstall" /\ last.code = 400
    /\ last.missing = {"Memory"}
    /\ last.caller = Addressed.User
    /\ db = last.pre

------------------------------------------------------------------------------
(* Edit against every daemon reply to the first request and to the retry *)

EditAnyReply == EditWith(EditScripts)

NextEdit == Deploy \/ EditAnyReply

SpecEdit == Init /\ [][NextEdit]_vars

\* the HTTP status of a daemon reply, 0 when the request got no reply
DaemonStatus(kind) ==
    IF kind = "h4xx" THEN 404 ELSE IF kind = "h5xx" THEN 503
    ELSE IF kind \in {"ok", "empty"} THEN 200 ELSE 0

\* the request failed in transport, or was answered with a status >= 500
TransportOr5xx(kind) == kind \in {"timeout", "neterr"} \/ DaemonStatus(kind) >= 500

\* C13: an edit issues a second daemon request exactly when the first failed
\* in transport or with a status >= 500, never more than two; a 4xx reply is
\* not retried and reaches the caller with the same status, and so does the
\* status of a second failure.
C13_EditRetryPolicy ==
    (last.op = "edit" /\ last.remote # "none") =>
        LET script == last.arg.script
        IN  /\ last.calls <= 2
            /\ (last.calls = 2) <=> TransportOr5xx(script[1])
            /\ DaemonStatus(script[1]) = 404 =>
                    (last.calls = 1 /\ last.code = 404)
            /\ (Len(script) = 2 /\ DaemonStatus(script[2]) >= 400) =>
                    last.code = DaemonStatus(script[2])

------------------------------------------------------------------------------
(* ws /api/instance/console/:id: the checks made before the daemon socket is
   opened.  hasUser: whether req.user is set.  code: the close code sent to
   the client, 0 when the relay is set up; calls: daemon sockets opened. *)

ConsoleOpenHandler(d, hasUser, id) ==
    IF ~hasUser THEN Res(d, 1008, 0, "none", FALSE)
    ELSE IF ~Has(d.inst, id) THEN Res(d, 1008, 0, "none", FALSE)
    ELSE IF ~NodeValid(d.inst[id]) THEN Res(d, 1008, 0, "none", FALSE)
    ELSE Res(d, 0, 1, "ok", TRUE)

ConsoleOpen ==
    /\ nops < MaxOps
    /\ \E id \in AddressKeys, caller \in Callers \cup {Undef} :
        /\ Complete("console", id, caller, NoArg,
                    ConsoleOpenHandler(db, caller # Undef, id), 0)
        /\ UNCHANGED nextI

------------------------------------------------------------------------------
(* The handlers that call the daemon, with redeploy finding any node record *)

RedeployAnyNode == RedeployWith({NodeOk, NodeNoKey, Undef})

NextNode ==
    \/ Deploy
    \/ RenameUrl
    \/ RedeployAnyNode
    \/ Edit
    \/ StateCheck
    \/ ConsoleOpen
    \/ ApiDelete
    \/ AdminDelete
    \/ Reinstall

SpecNode == Init /\ [][NextNode]_vars

\* the handlers that address the daemon of a stored instance
DaemonOps ==
    {"edit", "stateCheck", "console", "apiDelete", "adminDelete", "redeploy"}

\* the node descriptor the last request's daemon call is addressed with: the
\* record's Node, for redeploy the node record found under its Node.id
UsedNode ==
    IF last.op = "redeploy" /\ Addressed.Node # Undef THEN last.arg.node
    ELSE Addressed.Node

\* C14: when the node descriptor of the instance lacks an address, port or
\* apiKey, edit, state-check, console, delete and redeploy fail without any
\* HTTP or WebSocket request to the daemon.
C14_NoDaemonCallOnInvalidNode ==
    (/\ last.op \in DaemonOps
     /\ Has(last.pre.inst, last.id)
     /\ UsedNode # NodeOk)
        => (last.calls = 0 /\ ~last.ok)

\* the handlers that write the three locations of an instance
ThreeLocationOps ==
    {"edit", "renameUrl", "renamePost", "changeVariable", "redeploy", "reinstall"}

\* the place of a write in the prescribed order: per-instance key, a user's
\* list, the global list
WriteRank(w) ==
    IF w.loc = "inst" THEN 1 ELSE IF w.key # GlobalKey THEN 2 ELSE 3

\* C15: edit, both renames, change-variable, redeploy and reinstall write the
\* per-instance key first, the owner's list second and the global list third:
\* no write of a successful request follows a write of a later place.
C15_WriteOrderKeyUserGlobal ==
    (last.op \in ThreeLocationOps /\ last.ok) =>
        \A i \in 1..Len(last.writes) : \A j \in i..Len(last.writes) :
            WriteRank(last.writes[i]) <= WriteRank(last.writes[j])

RenameOps == {"renamePost", "renameUrl"}

\* the record the last request addressed, with the requested name
Renamed == [Addressed EXCEPT !.Name = last.arg.name]

RedeployedTo(r) ==
    /\ r.Image = last.arg.image
    /\ r.ContainerId = last.arg.containerId

\* C17: after a successful redeploy requesting image X, the per-instance
\* record and the entries with its Id in the user's list and in the global
\* list have Image X and the container id the daemon returned.
C17_RedeployStoresRequestedImage ==
    (last.op = "redeploy" /\ last.ok) =>
        /\ RedeployedTo(db.inst[last.id])
        /\ \A key \in {db.inst[last.id].User, GlobalKey} :
            /\ EntriesWithId(db, key, db.inst[last.id].Id) # {}
            /\ \A i \in EntriesWithId(db, key, db.inst[last.id].Id) :
                RedeployedTo(ListOrEmpty(db, key)[i])

\* the last request was an edit of an instance stored as suspended
EditOfSuspended ==
    /\ last.op = "edit"
    /\ Has(last.pre.inst, last.id)
    /\ Addressed.suspended = "true"

\* C18: an edit of a suspended instance is rejected: the daemon receives no
\* request and the store is left as it was.
C18_EditRejectedWhenSuspended ==
    EditOfSuspended => (~last.ok /\ last.calls = 0 /\ db = last.pre)

------------------------------------------------------------------------------
(* POST /instance/:id/rename when a db.set rejects *)

\* the db.set of the rename that rejects: that of the per-instance key, of the
\* global list or of the caller's list; a rejected write leaves the store as
\* it was
FailingWrites == {"key", "global", "user"}

\* the handler with the write failAt rejecting: the catch of the inner try
\* sets the old record under the per-instance key again and replies 500
RenamePostHandlerWriteFails(d, caller, id, newName, failAt) ==
    IF ~Has(d.inst, id) THEN Res(d, 404, 0, "none", FALSE)
    ELSE IF ~isUserAuthorizedForContainer(d, caller, d.inst[id].Id)
    THEN Res(d, 403, 0, "none", FALSE)
    ELSE LET old == d.inst[id]
             revert(dd) == Res(SetInst(dd, id, old), 500, 0, "none", FALSE)
             d1 == SetInst(d, id, [old EXCEPT !.Name = newName])
             d2 == RenameById(d1, GlobalKey, id, newName)
         IN  IF failAt = "key" THEN revert(d)
             ELSE IF failAt = "global"
                     /\ FindIndexById(ListOrEmpty(d1, GlobalKey), id) # 0
             THEN revert(d1)
             ELSE IF failAt = "user"
                     /\ FindIndexById(ListOrEmpty(d2, caller), id) # 0
             THEN revert(d2)
             ELSE Res(RenameById(d2, caller, id, newName), 200, 0, "none", TRUE)

RenamePostWriteFails ==
    /\ nops < MaxOps
    /\ \E id \in AddressKeys, caller \in Callers, failAt \in FailingWrites :
        /\ Complete("renamePostFail", id, caller,
                    [name |-> "n1", failAt |-> failAt],
                    RenamePostHandlerWriteFails(db, caller, id, "n1", failAt), 0)
        /\ UNCHANGED nextI

NextFail == Deploy \/ RenamePost \/ RenamePostWriteFails

SpecFail == Init /\ [][NextFail]_vars

\* the last request was a rename one of whose writes rejected after the write
\* of the per-instance key, on an instance whose three copies agreed
RenameFailedAfterKey ==
    /\ last.op = "renamePostFail"
    /\ last.code = 500
    /\ last.arg.failAt \in {"global", "user"}
    /\ ListAgrees(last.pre, Addressed.User, Addressed)
    /\ ListAgrees(last.pre, GlobalKey, Addressed)

\* C19: when a write of a rename rejects after the per-instance key was
\* written, the record, the owner's list entry and the global list entry all
\* carry the previous record, old Name included.
C19_RenameFailureRestoresAll ==
    RenameFailedAfterKey =>
        /\ db.inst[last.id] = Addressed
        /\ ListAgrees(db, Addressed.User, Addressed)
        /\ ListAgrees(db, GlobalKey, Addressed)

------------------------------------------------------------------------------
(* ws /api/instance/console/:id: the relay between the client's socket ws   *)
(* and the daemon's socket.  Each callback of the route is one step.        *)
(* reqs[1] holds the relay: sock and ws are the two sockets' states,        *)
(* toDaemon and toClient the frames sent on each so far, fromClient and     *)
(* fromDaemon the frames received, each with the state of the other socket  *)
(* when it arrived.                                                         *)

\* frames received per direction
MaxFrames == 3

\* node.apiKey of a node descriptor
NodeApiKey(node) == IF node = NodeOk THEN "key1" ELSE Undef

\* JSON.stringify({ "event": "auth", "args": [node.apiKey] })
AuthFrame(apiKey) == [event |-> "auth", args |-> <<apiKey>>]

\* what a client may send, a frame that looks like an auth frame included
ClientFrames ==
    {[event |-> "cmd", args |-> <<"ls">>], [event |-> "cmd", args |-> <<"top">>],
     [event |-> "auth", args |-> <<"guess">>]}

DaemonFrames ==
    {[event |-> "out", args |-> <<"o1">>], [event |-> "out", args |-> <<"o2">>]}

\* '\x1b[31;1mHydraDaemon instance appears to be down'
DownText == [event |-> "text", args |-> <<"down">>]

\* the relay once the route has created the daemon socket
NewRelay(id, node) ==
    [kind |-> "console", id |-> id, apiKey |-> NodeApiKey(node),
     sock |-> "connecting", ws |-> "open",
     toDaemon |-> <<>>, toClient |-> <<>>,
     fromClient |-> <<>>, fromDaemon |-> <<>>]

\* a variant of socket.onopen that sends nothing
SocketOnOpenNoAuth(c) == [c EXCEPT !.sock = "open"]

\* socket.onopen
SocketOnOpen(c) ==
    [c EXCEPT !.sock = "open",
              !.toDaemon = Append(@, AuthFrame(c.apiKey))]

\* ws.onmessage: socket.send(msg.data) throws while the daemon socket is
\* connecting, and the catch drops the frame; on a closed socket send does
\* nothing
WsOnMessage(c, f) ==
    [c EXCEPT !.fromClient = Append(@, [frame |-> f, sock |-> c.sock]),
              !.toDaemon = IF c.sock = "open" THEN Append(@, f) ELSE @]

\* socket.onmessage: ws.send(msg.data)
SocketOnMessage(c, f) ==
    [c EXCEPT !.fromDaemon = Append(@, [frame |-> f, ws |-> c.ws]),
              !.toClient = IF c.ws = "open" THEN Append(@, f) ELSE @]

\* socket.onerror: the text is sent to the client; the socket then closes
SocketOnError(c) ==
    [c EXCEPT !.sock = "failed",
              !.toClient = IF c.ws = "open" THEN Append(@, DownText) ELSE @]

\* socket.onclose: ws.close()
SocketOnClose(c) == [c EXCEPT !.sock = "closed", !.ws = "closed"]

\* ws.on('close'): socket.close()
WsOnClose(c) ==
    [c EXCEPT !.ws = "closed",
              !.sock = IF @ \in {"connecting", "open"} THEN "closing" ELSE @]

InitConsole ==
    /\ db = DeployedDb
    /\ reqs = <<>>
    /\ last = [op |-> "init", id |-> Undef, caller |-> Undef, arg |-> NoArg,
               code |-> 0, calls |-> 0, remote |-> "none", ok |-> FALSE,
               pre |-> db, missing |-> {}, writes |-> <<>>]
    /\ nextI = 1
    /\ nextC = 1
    /\ nops = 0

\* the relay steps leave the store and the request history alone
RelayStep(c) ==
    /\ reqs' = <<c>>
    /\ UNCHANGED <<db, last, nextI, nextC, nops>>

\* the route handler: the relay is set up when every check passes
ConsoleConnect ==
    /\ reqs = <<>>
    /\ \E id \in AddressKeys, caller \in Callers \cup {Undef} :
        /\ ConsoleOpenHandler(db, caller # Undef, id).ok
        /\ RelayStep(NewRelay(id, db.inst[id].Node))

ConsoleSocketOpen ==
    /\ Len(reqs) = 1 /\ reqs[1].sock = "connecting"
    /\ RelayStep(SocketOnOpen(reqs[1]))

ConsoleClientFrame ==
    /\ Len(reqs) = 1 /\ reqs[1].ws = "open"
    /\ Len(reqs[1].fromClient) < MaxFrames
    /\ \E f \in ClientFrames : RelayStep(WsOnMessage(reqs[1], f))

ConsoleDaemonFrame ==
    /\ Len(reqs) = 1 /\ reqs[1].sock \in {"open", "closing"}
    /\ Len(reqs[1].fromDaemon) < MaxFrames
    /\ \E f \in DaemonFrames : RelayStep(SocketOnMessage(reqs[1], f))

ConsoleSocketError ==
    /\ Len(reqs) = 1 /\ reqs[1].sock \in {"connecting", "open"}
    /\ RelayStep(SocketOnError(reqs[1]))

ConsoleSocketClose ==
    /\ Len(reqs) = 1 /\ reqs[1].sock \in {"open", "failed", "closing"}
    /\ RelayStep(SocketOnClose(reqs[1]))

ConsoleClientClose ==
    /\ Len(reqs) = 1 /\ reqs[1].ws = "open"
    /\ RelayStep(WsOnClose(reqs[1]))

NextConsole ==
    \/ ConsoleConnect
    \/ ConsoleSocketOpen
    \/ ConsoleClientFrame
    \/ ConsoleDaemonFrame
    \/ ConsoleSocketError
    \/ ConsoleSocketClose
    \/ ConsoleClientClose

SpecConsole == InitConsole /\ [][NextConsole]_vars

\* the frames of a receive history that arrived while the other socket was open
RECURSIVE ArrivedWhileOpen(_, _)
ArrivedWhileOpen(h, side) ==
    IF h = <<>> THEN <<>>
    ELSE IF Head(h)[side] = "open"
    THEN <<Head(h).frame>> \o ArrivedWhileOpen(Tail(h), side)
    ELSE ArrivedWhileOpen(Tail(h), side)

\* the frames sent to the client other than the panel's own text
RECURSIVE RelayedToClient(_)
RelayedToClient(s) ==
    IF s = <<>> THEN <<>>
    ELSE IF Head(s) = DownText THEN RelayedToClient(Tail(s))
    ELSE <<Head(s)>> \o RelayedToClient(Tail(s))

\* C20: the first frame sent on the daemon socket is the auth frame with the
\* node's apiKey; the frames after it are exactly the client's frames that
\* arrived while the daemon socket was open, unchanged and in order of
\* arrival; the daemon's frames reach the client unchanged and in order of
\* arrival.
C20_ConsoleRelayOrder ==
    \A p \in 1..Len(reqs) :
        /\ reqs[p].sock = "connecting" => reqs[p].toDaemon = <<>>
        /\ reqs[p].sock # "connecting" /\ reqs[p].toDaemon # <<>> =>
            /\ Head(reqs[p].toDaemon) = AuthFrame(NodeApiKey(db.inst[reqs[p].id].Node))
            /\ Tail(reqs[p].toDaemon) = ArrivedWhileOpen(reqs[p].fromClient, "sock")
        /\ reqs[p].toDaemon = <<>> =>
            ArrivedWhileOpen(reqs[p].fromClient, "sock") = <<>>
        /\ RelayedToClient(reqs[p].toClient)
               = ArrivedWhileOpen(reqs[p].fromDaemon, "ws")

\* a client frame arrived before the daemon socket opened, the socket opened,
\* and then two different frames went each way
C20_Witness ==
    /\ Len(reqs) = 1
    /\ reqs[1].fromClient # <<>> /\ reqs[1].fromClient[1].sock = "connecting"
    /\ Len(reqs[1].toDaemon) = 3
    /\ reqs[1].toDaemon[2] # reqs[1].toDaemon[3]
    /\ Len(reqs[1].toClient) = 2
    /\ reqs[1].toClient[1] # reqs[1].toClient[2]
    /\ DownText \notin {reqs[1].toClient[1], reqs[1].toClient[2]}

------------------------------------------------------------------------------
(* The console relay from the arrival of the client's socket: the route      *)
(* awaits db.get before it creates the daemon socket and registers its       *)
(* callbacks.  sock is "none" while the lookup is awaited and "never" once   *)
(* the route has returned without creating a daemon socket.                  *)

\* the relay while the route awaits db.get(id + '_instance')
PendingRelay(id) ==
    [NewRelay(id, Undef) EXCEPT !.sock = "none"]

\* the route after the lookup: the checks of the instance and its node, then
\* new WebSocket(...); the state of the client's socket is not read
AfterLookup(d, c) ==
    IF ~ConsoleOpenHandler(d, TRUE, c.id).ok
    THEN [c EXCEPT !.sock = "never", !.ws = "closed"]
    ELSE [c EXCEPT !.sock = "connecting",
                   !.apiKey = NodeApiKey(d.inst[c.id].Node)]

\* the client's socket arrives; req.user and the id are checked at once
ConsoleRequest ==
    /\ reqs = <<>>
    /\ \E id \in AddressKeys : RelayStep(PendingRelay(id))

ConsoleLookupDone ==
    /\ Len(reqs) = 1 /\ reqs[1].sock = "none"
    /\ RelayStep(AfterLookup(db, reqs[1]))

\* the client closes while the lookup is awaited: ws.on('close') is not yet
\* registered, nothing runs
ConsoleClientCloseEarly ==
    /\ Len(reqs) = 1 /\ reqs[1].sock = "none" /\ reqs[1].ws = "open"
    /\ RelayStep([reqs[1] EXCEPT !.ws = "closed"])

\* the steps of the relay once its callbacks are registered
ConsoleRelaySteps ==
    /\ Len(reqs) = 1 /\ reqs[1].sock \notin {"none", "never"}
    /\ \/ ConsoleSocketOpen
       \/ ConsoleClientFrame
       \/ ConsoleDaemonFrame
       \/ ConsoleSocketError
       \/ ConsoleSocketClose
       \/ ConsoleClientClose

NextConsoleLife ==
    \/ ConsoleRequest
    \/ ConsoleLookupDone
    \/ ConsoleClientCloseEarly
    \/ ConsoleRelaySteps

\* a connection attempt ends: the socket opens or fails
ConsoleConnectResolves ==
    /\ Len(reqs) = 1 /\ reqs[1].sock = "connecting"
    /\ (ConsoleSocketOpen \/ ConsoleSocketError)

\* a socket that is closing or has failed emits close
ConsoleCloseCompletes ==
    /\ Len(reqs) = 1 /\ reqs[1].sock \in {"closing", "failed"}
    /\ ConsoleSocketClose

\* the awaited lookup returns, connection attempts end and closing sockets
\* close; nothing obliges the client or the daemon to close an open socket
SpecConsoleLife ==
    /\ InitConsole
    /\ [][NextConsoleLife]_vars
    /\ WF_vars(ConsoleLookupDone)
    /\ WF_vars(ConsoleConnectResolves)
    /\ WF_vars(ConsoleCloseCompletes)

ClientGone == Len(reqs) = 1 /\ reqs[1].ws = "closed"

DaemonSocketGone == Len(reqs) = 1 /\ reqs[1].sock \in {"closed", "never"}

\* C21: whenever the client's socket has closed, the daemon socket is
\* eventually closed (or was never created), and whenever the daemon socket
\* has closed the client's socket is eventually closed, also when the client
\* closes while the route still awaits the instance lookup.
C21_ConsoleClosePropagates ==
    /\ ClientGone ~> DaemonSocketGone
    /\ (Len(reqs) = 1 /\ reqs[1].sock = "closed") ~> ClientGone

\* the last request was a successful edit whose daemon reply named, as
\* newContainerId, the very key the record was stored under
EditRepliedOwnKey ==
    /\ last.op = "edit"
    /\ last.ok
    /\ last.arg.newContainerId = last.id

\* C22: when the daemon's edit reply returns a newContainerId equal to the key
\* the record is stored under, the updated record is stored under that key
\* after the edit.
C22_EditSameKeyKeepsRecord ==
    EditRepliedOwnKey =>
        /\ Has(db.inst, last.id)
        /\ db.inst[last.id] =
              EditedRecord(Addressed, last.arg.Image, last.arg.Memory,
                           last.arg.Cpu, last.id)

\* the handlers that refuse a suspended instance
SuspensionCheckedOps == {"changeVariable", "redeploy", "reinstall"}

\* the last request was one of them, for an instance stored as suspended
MutationOfSuspended ==
    /\ last.op \in SuspensionCheckedOps
    /\ Has(last.pre.inst, last.id)
    /\ Addressed.suspended = "true"

\* C23: a change-variable, redeploy or reinstall request for an instance whose
\* stored record has suspended = true makes no daemon call and leaves the
\* per-instance record and both lists as they were.
C23_SuspendedNotMutated ==
    MutationOfSuspended => (last.calls = 0 /\ ~last.ok /\ db = last.pre)

\* such a request was made by a caller authorized for the instance
C23_Witness ==
    /\ MutationOfSuspended
    /\ isUserAuthorizedForContainer(last.pre, last.caller, Addressed.Id)
    /\ last.op = "reinstall"
    /\ MissingFields(Addressed) = {}

------------------------------------------------------------------------------
(* A deploy and another mutation of a different instance in flight at once,  *)
(* from the point where each handler starts its storage writes.  Each        *)
(* awaited db.get or db.set is one atomic step; reqs[p].list is the list the  *)
(* handler has read into its local variable.                                  *)

RaceKinds == {"deploy", "changeVariable"}

\* request p's instance: the first request deploys i2, the second deploys i3
\* or changes a variable of the deployed i1
RaceRequest(p, kind, user) ==
    [kind |-> kind, pc |-> "start", list |-> <<>>,
     id |-> IF kind = "changeVariable" THEN "i1" ELSE IdNames[p + 1],
     rec |-> IF kind = "changeVariable" THEN StubRecord
             ELSE DeployRecord(IdNames[p + 1], user, CNames[p + 1], "A", 512)]

InitRace ==
    /\ db = DeployedDb
    /\ \E u1 \in Users, u2 \in Users, k2 \in RaceKinds :
        reqs = <<RaceRequest(1, "deploy", u1), RaceRequest(2, k2, u2)>>
    /\ last = [op |-> "init", id |-> Undef, caller |-> Undef, arg |-> NoArg,
               code |-> 0, calls |-> 0, remote |-> "none", ok |-> FALSE,
               pre |-> db, missing |-> {}, writes |-> <<>>]
    /\ nextI = 3
    /\ nextC = 3
    /\ nops = 0

\* deploy's list update pushes; updateInstanceInUserAndGlobalArrays filters
\* the entries with the instance's Id out first
RaceNewList(r) ==
    IF r.kind = "deploy" THEN Append(r.list, r.rec)
    ELSE Append(FilterOutId(r.list, r.rec.Id), r.rec)

\* change-variable: db.get of the record, the checks, updatedInstance;
\* deploy: instanceData is built from the daemon's reply
RaceStart(p) ==
    /\ reqs[p].pc = "start"
    /\ reqs' = [reqs EXCEPT ![p] =
            IF reqs[p].kind = "deploy" THEN [reqs[p] EXCEPT !.pc = "getUser"]
            ELSE [reqs[p] EXCEPT
                     !.pc = "setKey",
                     !.rec = [db.inst[reqs[p].id] EXCEPT
                                 !.Env = UpdatedEnv(db.inst[reqs[p].id].Env,
                                                    "V", "x")]]]
    /\ UNCHANGED <<db, last, nextI, nextC, nops>>

\* db.set of the per-instance key: first for change-variable, last for deploy
RaceSetKey(p) ==
    /\ reqs[p].pc = "setKey"
    /\ db' = Quiet(SetInst(db, reqs[p].id, reqs[p].rec))
    /\ reqs' = [reqs EXCEPT ![p].pc =
                    IF reqs[p].kind = "deploy" THEN "done" ELSE "getUser"]
    /\ UNCHANGED <<last, nextI, nextC, nops>>

RaceGetUser(p) ==
    /\ reqs[p].pc = "getUser"
    /\ reqs' = [reqs EXCEPT ![p].list = ListOrEmpty(db, reqs[p].rec.User),
                            ![p].pc = "setUser"]
    /\ UNCHANGED <<db, last, nextI, nextC, nops>>

RaceSetUser(p) ==
    /\ reqs[p].pc = "setUser"
    /\ db' = Quiet(SetList(db, reqs[p].rec.User, RaceNewList(reqs[p])))
    /\ reqs' = [reqs EXCEPT ![p].pc = "getGlobal"]
    /\ UNCHANGED <<last, nextI, nextC, nops>>

RaceGetGlobal(p) ==
    /\ reqs[p].pc = "getGlobal"
    /\ reqs' = [reqs EXCEPT ![p].list = ListOrEmpty(db, GlobalKey),
                            ![p].pc = "setGlobal"]
    /\ UNCHANGED <<db, last, nextI, nextC, nops>>

RaceSetGlobal(p) ==
    /\ reqs[p].pc = "setGlobal"
    /\ db' = Quiet(SetList(db, GlobalKey, RaceNewList(reqs[p])))
    /\ reqs' = [reqs EXCEPT ![p].pc =
                    IF reqs[p].kind = "deploy" THEN "setKey" ELSE "done"]
    /\ UNCHANGED <<last, nextI, nextC, nops>>

NextRace ==
    \E p \in Procs :
        \/ RaceStart(p)
        \/ RaceSetKey(p)
        \/ RaceGetUser(p)
        \/ RaceSetUser(p)
        \/ RaceGetGlobal(p)
        \/ RaceSetGlobal(p)

SpecRace == InitRace /\ [][NextRace]_vars

\* both requests have replied success
BothMutated ==
    /\ Len(reqs) = 2
    /\ reqs[1].pc = "done" /\ reqs[2].pc = "done"

\* C24: when two requests for different instances (two deploys, or a deploy
\* and a change-variable) have both succeeded, the global list and each
\* owner's list hold, for each of the two instances, exactly one entry and it
\* is the record that request wrote.
C24_DifferentInstancesDoNotInterfere ==
    BothMutated =>
        \A p \in Procs :
            /\ ListAgrees(db, GlobalKey, reqs[p].rec)
            /\ ListAgrees(db, reqs[p].rec.User, reqs[p].rec)

------------------------------------------------------------------------------
(* A suspend request (reqs[1]) and a redeploy or reinstall of the same       *)
(* instance (reqs[2]) in flight at once.  The redeploy or reinstall yields   *)
(* after its checks, while it awaits the daemon, and writes afterwards.      *)

RewriteKinds == {"redeploy", "reinstall"}

RewriteRequest(kind, id) ==
    [kind |-> kind, id |-> id, pc |-> "check", instance |-> StubRecord]

InitSticky ==
    /\ db \in SuspendInitDbs
    /\ \E k1 \in SuspendKinds, k2 \in RewriteKinds, id \in DOMAIN db.inst :
        reqs = <<SuspendRequest(k1, id), RewriteRequest(k2, id)>>
    /\ last = [op |-> "init", id |-> Undef, caller |-> Undef, arg |-> NoArg,
               code |-> 0, calls |-> 0, remote |-> "none", ok |-> FALSE,
               pre |-> db, missing |-> {}, writes |-> <<>>]
    /\ nextI = 1
    /\ nextC = 2
    /\ nops = 0

\* whether the route, called by an administrator, passes every check and
\* sends its request to the daemon
ReachesDaemon(d, kind, id) ==
    IF kind = "redeploy"
    THEN RedeployHandler(d, AdminUser, id, "imgB", "u1", "fail", Undef, NodeOk).calls = 1
    ELSE ReinstallHandler(d, AdminUser, id, "fail", Undef).calls = 1

\* db.get of the record and the checks, the suspension check among them
RewriteCheck(p) ==
    /\ reqs[p].pc = "check"
    /\ reqs' = [reqs EXCEPT ![p].instance = db.inst[reqs[p].id],
                            ![p].pc = IF ReachesDaemon(Quiet(db), reqs[p].kind,
                                                       reqs[p].id)
                                      THEN "call" ELSE "refused"]
    /\ UNCHANGED <<db, last, nextI, nextC, nops>>

\* the daemon answers
RewriteReply(p) ==
    /\ reqs[p].pc = "call"
    /\ \E reply \in {"ok", "fail"} :
        reqs' = [reqs EXCEPT ![p].pc = IF reply = "ok" THEN "write" ELSE "failed"]
    /\ UNCHANGED <<db, last, nextI, nextC, nops>>

\* updateDatabaseWithNewInstance with the record read before the daemon call
RewriteWrite(p) ==
    /\ reqs[p].pc = "write"
    /\ db' = Quiet(IF reqs[p].kind = "redeploy"
                   THEN RedeployWrites(db, reqs[p].id,
                            RedeployRecord(reqs[p].instance, reqs[p].id, "u1",
                                           "imgB", CNames[3], NodeOk))
                   ELSE ReinstallWrites(db, reqs[p].id,
                            ReinstallRecord(reqs[p].instance, reqs[p].id,
                                            CNames[3])))
    /\ reqs' = [reqs EXCEPT ![p].pc = "written"]
    /\ UNCHANGED <<last, nextI, nextC, nops>>

NextSticky ==
    \/ SuspendGetInstance(1)
    \/ SuspendSetInstance(1)
    \/ ApiSuspendGetInstances(1)
    \/ AdminSuspendGetInstances(1)
    \/ AdminSuspendSetAgain(1)
    \/ SuspendSetInstances(1)
    \/ RewriteCheck(2)
    \/ RewriteReply(2)
    \/ RewriteWrite(2)

SpecSticky == InitSticky /\ [][NextSticky]_vars

\* the suspend request has replied success
SuspendCompleted == Len(reqs) = 2 /\ reqs[1].pc = "done"

\* C25: once a suspend request has completed, and no unsuspend has run, the
\* per-instance record has suspended = true, also when a redeploy or
\* reinstall that passed its suspension check earlier writes afterwards.
C25_SuspensionSticky ==
    SuspendCompleted =>
        /\ Has(db.inst, reqs[1].id)
        /\ db.inst[reqs[1].id].suspended = "true"

------------------------------------------------------------------------------
(* GET /admin/instances/purge/all.  reqs[1] is the route, reqs[2..] the       *)
(* deleteInstance calls of its batch, which run in parallel: each awaited     *)
(* daemon call, pair of db.get and db.set or db.delete is one step.  The      *)
(* stores considered hold fewer instances than one batch takes.               *)

\* db.delete of a list key
DelList(d, k) ==
    [d EXCEPT !.lists = Del(d.lists, k),
              !.log = Append(d.log, [loc |-> "list", key |-> k])]

\* two deployed instances, of one owner or of two
PurgeInitDbs ==
    {Quiet(DeployHandler(DeployedDb, "i2", u, "A", 512, "created", "c2").db) :
        u \in Users}

PurgeTask(instance) ==
    [kind |-> "deleteInstance", pc |-> "start", instance |-> instance,
     userInstances |-> <<>>, globalInstances |-> <<>>,
     setUser |-> FALSE, setGlobal |-> FALSE, delKey |-> FALSE]

InitPurge ==
    /\ db \in PurgeInitDbs
    /\ reqs = <<[kind |-> "purge", pc |-> "start"]>>
    /\ last = [op |-> "init", id |-> Undef, caller |-> Undef, arg |-> NoArg,
               code |-> 0, calls |-> 0, remote |-> "none", ok |-> FALSE,
               pre |-> db, missing |-> {}, writes |-> <<>>]
    /\ nextI = 2
    /\ nextC = 2
    /\ nops = 0

PurgeTasks == 2..Len(reqs)

\* const instances = (await db.get("instances")) || []; the batch is started
PurgeStart ==
    /\ reqs[1].pc = "start"
    /\ LET instances == ListOrEmpty(db, GlobalKey)
       IN  reqs' = <<[reqs[1] EXCEPT !.pc = "batch"]>>
                   \o [i \in 1..Len(instances) |-> PurgeTask(instances[i])]
    /\ UNCHANGED <<db, last, nextI, nextC, nops>>

\* validateInstance, then the daemon call, whose outcome is ignored
PurgeDaemonCall(p) ==
    /\ p \in PurgeTasks
    /\ reqs[p].pc = "start"
    /\ reqs' = [reqs EXCEPT ![p].pc =
                    IF validateInstance(reqs[p].instance) THEN "get" ELSE "failed"]
    /\ UNCHANGED <<db, last, nextI, nextC, nops>>

\* Promise.all of the two db.get
PurgeGetLists(p) ==
    /\ p \in PurgeTasks
    /\ reqs[p].pc = "get"
    /\ reqs' = [reqs EXCEPT
                  ![p].userInstances = ListOrEmpty(db, reqs[p].instance.User),
                  ![p].globalInstances = ListOrEmpty(db, GlobalKey),
                  ![p].pc = "write"]
    /\ UNCHANGED <<db, last, nextI, nextC, nops>>

\* the task after one more of its three writes has settled
PurgeSettled(t) ==
    IF t.setUser /\ t.setGlobal /\ t.delKey THEN [t EXCEPT !.pc = "done"] ELSE t

PurgeSetUser(p) ==
    /\ p \in PurgeTasks
    /\ reqs[p].pc = "write" /\ ~reqs[p].setUser
    /\ db' = Quiet(SetList(db, reqs[p].instance.User,
                           FilterOutId(reqs[p].userInstances, reqs[p].instance.Id)))
    /\ reqs' = [reqs EXCEPT ![p] = PurgeSettled([reqs[p] EXCEPT !.setUser = TRUE])]
    /\ UNCHANGED <<last, nextI, nextC, nops>>

PurgeSetGlobal(p) ==
    /\ p \in PurgeTasks
    /\ reqs[p].pc = "write" /\ ~reqs[p].setGlobal
    /\ db' = Quiet(SetList(db, GlobalKey,
                           FilterOutId(reqs[p].globalInstances, reqs[p].instance.Id)))
    /\ reqs' = [reqs EXCEPT ![p] = PurgeSettled([reqs[p] EXCEPT !.setGlobal = TRUE])]
    /\ UNCHANGED <<last, nextI, nextC, nops>>

PurgeDelKey(p) ==
    /\ p \in PurgeTasks
    /\ reqs[p].pc = "write" /\ ~reqs[p].delKey
    /\ db' = Quiet(DelInst(db, reqs[p].instance.Id))
    /\ reqs' = [reqs EXCEPT ![p] = PurgeSettled([reqs[p] EXCEPT !.delKey = TRUE])]
    /\ UNCHANGED <<last, nextI, nextC, nops>>

\* the batch has settled: await db.delete("instances"), success reply
PurgeFinish ==
    /\ reqs[1].pc = "batch"
    /\ \A p \in PurgeTasks : reqs[p].pc \in {"done", "failed"}
    /\ db' = Quiet(DelList(db, GlobalKey))
    /\ reqs' = [reqs EXCEPT ![1].pc = "done"]
    /\ UNCHANGED <<last, nextI, nextC, nops>>

\* the places of reqs the batch's calls may take: one per deployed instance
PurgeSlots == {1 + i : i \in 1..MaxInstances}

NextPurge ==
    \E p \in PurgeSlots :
        \/ PurgeStart
        \/ PurgeFinish
        \/ PurgeDaemonCall(p)
        \/ PurgeGetLists(p)
        \/ PurgeSetUser(p)
        \/ PurgeSetGlobal(p)
        \/ PurgeDelKey(p)

SpecPurge == InitPurge /\ [][NextPurge]_vars

PurgeCompleted == reqs[1].kind = "purge" /\ reqs[1].pc = "done"

\* C26: after purge all has completed, the global list is absent or empty and
\* for every instance its batch deleted the per-instance key is absent and
\* the owner's list holds no entry with its Id, also when two instances of
\* the batch have the same owner.
C26_PurgeLeavesNothing ==
    PurgeCompleted =>
        /\ ListOrEmpty(db, GlobalKey) = <<>>
        /\ \A p \in PurgeTasks :
            reqs[p].pc = "done" =>
                GoneEverywhere(db, reqs[p].instance.Id, reqs[p].instance.User)

\* the user exists and is an administrator, or has the instance in accessTo,
\* or has an entry with the instance's Id in the own list
Entitled(d, userId, Id) ==
    /\ userId \in DOMAIN UsersDb
    /\ \/ UsersDb[userId].admin
       \/ Id \in UsersDb[userId].accessTo
       \/ EntriesWithId(d, userId, Id) # {}

\* the last request asked for the console of an existing instance by an
\* authenticated user who is neither its owner, nor a sub-user with access,
\* nor an administrator
ConsoleByUnauthorized ==
    /\ last.op = "console"
    /\ last.caller # Undef
    /\ Has(last.pre.inst, last.id)
    /\ ~Entitled(last.pre, last.caller, Addressed.Id)

\* C27: for an authenticated user who is neither the owner, nor a sub-user
\* with access, nor an administrator, the console route creates no daemon
\* socket.
C27_ConsoleOnlyForAuthorized ==
    ConsoleByUnauthorized => (last.calls = 0 /\ ~last.ok)

\* C28: after a successful redeploy the stored record has the User it had
\* before, and that user's list still holds the instance's entry, whatever
\* the request's parameters.
C28_RedeployKeepsOwner ==
    (last.op = "redeploy" /\ last.ok) =>
        /\ db.inst[last.id].User = Addressed.User
        /\ EntriesWithId(db, Addressed.User, db.inst[last.id].Id) # {}
        /\ \A u \in Users \ {Addressed.User} :
            EntriesWithId(db, u, db.inst[last.id].Id)
                = EntriesWithId(last.pre, u, db.inst[last.id].Id)

\* user ids a caller may present: the known users, none, and an unknown one
AskingUsers == Callers \cup {Undef, "ghost"}

\* C29: for every user id and instance id, isUserAuthorizedForContainer
\* returns true exactly when the user exists and is an administrator, or has
\* the instance in accessTo, or has an entry with that Id in the own list.
C29_AuthorizedIffEntitled ==
    \A userId \in AskingUsers : \A Id \in IssuedIds \cup {Undef} :
        isUserAuthorizedForContainer(db, userId, Id)
            <=> (Id # Undef /\ Entitled(db, userId, Id))

\* the per-instance keys and list keys whose stored value differs between two
\* stores
ChangedInstKeys(d, e) ==
    {k \in DOMAIN d.inst \cup DOMAIN e.inst :
        ~(Has(d.inst, k) /\ Has(e.inst, k) /\ d.inst[k] = e.inst[k])}

ChangedListKeys(d, e) ==
    {k \in DOMAIN d.lists \cup DOMAIN e.lists :
        ~(Has(d.lists, k) /\ Has(e.lists, k) /\ d.lists[k] = e.lists[k])}

====
